---- MODULE Spec2Model ----
(***************************************************************************)
(* Model of package otel (src/otel/exporter_test.go, lines 99-264): the    *)
(* configuration resolver NewENVConfig, the resource builder               *)
(* Config.resource, the factory NewExporter and the two ExportPipeline     *)
(* methods, together with the parts of the wrapped telemetry SDK whose     *)
(* outcome the package branches on or its tests assert (lines 12-97).      *)
(*                                                                         *)
(* The SDK calls are modelled at their call sites by their documented      *)
(* contract: stdouttrace.New and resource.Merge return a value or an       *)
(* error, the blocking gRPC dial returns once the endpoint is connected or *)
(* the caller's context expires, otel.SetTracerProvider atomically         *)
(* replaces the global provider, a span is recording iff the provider's    *)
(* sampler sampled it, the batch span processor queues ended sampled spans *)
(* and writes them to the exporter on a timer, ForceFlush or Shutdown.     *)
(***************************************************************************)
EXTENDS Integers, Sequences, FiniteSets, TLC

VARIABLES
    env,        \* process environment: variable name -> value or Unset
    ambient,    \* what resource.New(ctx) detects in this process (line 145)
    net,        \* "up" / "down": whether the collector endpoint can be connected
    deadline,   \* whether the ctx handed to ExportPipeline carries a deadline
    stdoutErr,  \* the error stdouttrace.New returns in this process, or NoErr
    cfg,        \* the *Config under construction / shared by the exporters
    lastOp,     \* name of the last package-level operation that returned
    ret,        \* what the last call of Config.resource returned
    exporter,   \* per caller: the Exporter NewExporter returned
    pc,         \* per caller: position inside ExportPipeline
    exp,        \* per caller: local exp / otlpExporter
    err,        \* per caller: local err of the adapter constructor
    tp,         \* per caller: local tracerProvider
    result,     \* per caller: the (provider, error) pair ExportPipeline returned
    global,     \* the process-wide default provider (otel.SetTracerProvider)
    lastOK,     \* handle returned by the most recent successful ExportPipeline
    spans,      \* spans started from the pipeline handle
    queue,      \* batch span processor queue of the pipeline
    sink,       \* what the exporter has written to its destination
    shut,       \* pipeline.Shutdown has been called
    panicked    \* the export goroutine wrote through a nil io.Writer

vars == <<env, ambient, net, deadline, stdoutErr, cfg, lastOp, ret, exporter, pc, exp, err,
          tp, result, global, lastOK, spans, queue, sink, shut, panicked>>

envVars  == <<env>>
cfgVars  == <<cfg, lastOp, ret>>
pipeVars == <<exporter, pc, exp, err, tp, result, global, lastOK>>
spanVars == <<spans, queue, sink, shut, panicked>>
worldVars == <<ambient, net, deadline, stdoutErr>>

\* what an operation of one part of the program leaves alone
EnvFrame  == UNCHANGED <<pipeVars, spanVars, worldVars>>
PipeFrame == UNCHANGED <<envVars, cfgVars, spanVars, worldVars>>
SpanFrame == UNCHANGED <<envVars, cfgVars, pipeVars, worldVars>>

(***************************************************************************)
(* Bounds                                                                  *)
(***************************************************************************)
MaxCallers == 2
MaxSpans == 2

Callers == 1..MaxCallers
SpanIds == 1..MaxSpans

(***************************************************************************)
(* Environment and Config                                                  *)
(***************************************************************************)
EnvNames == {"OTEL_SERVICE_NAME", "OTEL_SERVICE_VERSION", "OTEL_SERVICE_ID",
             "OTEL_GRPC_API_KEY", "OTEL_GRPC_URL"}

Unset == "<unset>"

\* the values setEnv gives the five variables
setEnv == [n \in EnvNames |->
             CASE n = "OTEL_SERVICE_NAME"    -> "sampleServiceName"
               [] n = "OTEL_SERVICE_VERSION" -> "v1.0.0.0"
               [] n = "OTEL_SERVICE_ID"      -> "sampleServiceID"
               [] n = "OTEL_GRPC_API_KEY"    -> "sampleApiKey"
               [] n = "OTEL_GRPC_URL"        -> "otlp.nr-data.net:4317"]

unsetEnv == [n \in EnvNames |-> Unset]

\* os.Getenv: the value, or "" when the variable is not present
Getenv(e, n) == IF e[n] = Unset THEN "" ELSE e[n]

NilWriter == "nil"
Writers == {NilWriter, "bytes.Buffer", "os.Stdout"}

NoConfig == [nil |-> TRUE]

NewENVConfigSwapped(e) ==
    [ServiceName       |-> Getenv(e, "OTEL_SERVICE_ID"),
     ServiceVersion    |-> Getenv(e, "OTEL_SERVICE_VERSION"),
     ServiceInstanceID |-> Getenv(e, "OTEL_SERVICE_NAME"),
     Writer            |-> NilWriter,
     APIKey            |-> Getenv(e, "OTEL_GRPC_API_KEY"),
     URL               |-> Getenv(e, "OTEL_GRPC_URL")]

NewENVConfig(e) ==
    [ServiceName       |-> Getenv(e, "OTEL_SERVICE_NAME"),
     ServiceVersion    |-> Getenv(e, "OTEL_SERVICE_VERSION"),
     ServiceInstanceID |-> Getenv(e, "OTEL_SERVICE_ID"),
     Writer            |-> NilWriter,
     APIKey            |-> Getenv(e, "OTEL_GRPC_API_KEY"),
     URL               |-> Getenv(e, "OTEL_GRPC_URL")]

(***************************************************************************)
(* Resources: a schema URL and an attribute set.  An attribute set is a    *)
(* function from keys to values; Attributes lists it sorted by key, as     *)
(* attribute.Set keeps it.                                                 *)
(***************************************************************************)
SchemaURL == "https://opentelemetry.io/schemas/1.4.0"

ServiceNameKey       == "service.name"
ServiceVersionKey    == "service.version"
ServiceInstanceIDKey == "service.instance.id"

\* the keys of the model in the byte order attribute.Set sorts them by
KeyOrder == <<"host.name", ServiceInstanceIDKey, ServiceNameKey,
              ServiceVersionKey, "telemetry.sdk.name">>

NoErr == [nil |-> TRUE]

\* errors.New(msg)
NewError(msg) == [msg |-> msg]

EmptyAttrs == [k \in {} |-> ""]

\* results resource.New(ctx) can hand back, depending on the SDK build and
\* the process it runs in
AmbientDefaults ==
    { [schemaURL |-> "", attrs |-> EmptyAttrs],
      [schemaURL |-> SchemaURL,
       attrs |-> [k \in {"host.name", ServiceNameKey, "telemetry.sdk.name"} |->
                    CASE k = "host.name"     -> "localhost"
                      [] k = ServiceNameKey  -> "unknown_service:go"
                      [] OTHER               -> "opentelemetry"]],
      [schemaURL |-> "https://opentelemetry.io/schemas/1.21.0",
       attrs |-> [k \in {"telemetry.sdk.name"} |-> "opentelemetry"]] }

RECURSIVE SetOf(_, _)
\* attribute.NewSet over a key-value list: a later value of a key replaces
\* an earlier one
SetOf(kvs, acc) ==
    IF kvs = <<>> THEN acc
    ELSE LET kv == Head(kvs)
         IN  SetOf(Tail(kvs),
                   [k \in DOMAIN acc \cup {kv[1]} |->
                      IF k = kv[1] THEN kv[2] ELSE acc[k]])

NewWithAttributes(schema, kvs) ==
    [schemaURL |-> schema, attrs |-> SetOf(kvs, EmptyAttrs)]

\* Resource.Attributes(): the key-value pairs in key order
Attributes(r) ==
    LET present == SelectSeq(KeyOrder, LAMBDA k : k \in DOMAIN r.attrs)
    IN  [i \in 1..Len(present) |->
           [Key |-> present[i], Value |-> r.attrs[present[i]]]]

NilResource == [schemaURL |-> "", attrs |-> EmptyAttrs, nil |-> TRUE]

MergeFirstWins(a, b) ==
    IF a.schemaURL # "" /\ b.schemaURL # "" /\ a.schemaURL # b.schemaURL
    THEN [r |-> NilResource, err |-> NewError("conflicting Schema URL")]
    ELSE [r |-> [schemaURL |-> IF a.schemaURL = "" THEN b.schemaURL ELSE a.schemaURL,
                 attrs |-> [k \in DOMAIN a.attrs \cup DOMAIN b.attrs |->
                              IF k \in DOMAIN a.attrs THEN a.attrs[k] ELSE b.attrs[k]]],
          err |-> NoErr]

\* resource.Merge(a, b): b's value wins on a shared key; two different
\* non-empty schema URLs are an error
Merge(a, b) ==
    IF a.schemaURL # "" /\ b.schemaURL # "" /\ a.schemaURL # b.schemaURL
    THEN [r |-> NilResource, err |-> NewError("conflicting Schema URL")]
    ELSE [r |-> [schemaURL |-> IF a.schemaURL = "" THEN b.schemaURL ELSE a.schemaURL,
                 attrs |-> [k \in DOMAIN a.attrs \cup DOMAIN b.attrs |->
                              IF k \in DOMAIN b.attrs THEN b.attrs[k] ELSE a.attrs[k]]],
          err |-> NoErr]

WrapErr(msg, cause) == [msg |-> msg, cause |-> cause]

\* func (c *Config) resource(ctx): (resource, nil) or (nil, wrapped error)
resource(c, defaultResource) ==
    LET m == Merge(defaultResource,
                   NewWithAttributes(SchemaURL,
                       << <<ServiceNameKey, c.ServiceName>>,
                          <<ServiceVersionKey, c.ServiceVersion>>,
                          <<ServiceInstanceIDKey, c.ServiceInstanceID>> >>))
    IN  IF m.err # NoErr
        THEN [r |-> NilResource, err |-> WrapErr("could not create resource", m.err)]
        ELSE [r |-> m.r, err |-> NoErr]

(***************************************************************************)
(* Operations of the configuration resolver and their callers              *)
(***************************************************************************)
NoResult == [nil |-> TRUE]

\* os.Setenv(n, v) with the value setEnv uses for n
Setenv(n) ==
    /\ env[n] # setEnv[n]
    /\ env' = [env EXCEPT ![n] = setEnv[n]]
    /\ lastOp' = "Setenv"
    /\ UNCHANGED <<cfg, ret>>
    /\ EnvFrame

\* os.Unsetenv(n)
Unsetenv(n) ==
    /\ env[n] # Unset
    /\ env' = [env EXCEPT ![n] = Unset]
    /\ lastOp' = "Unsetenv"
    /\ UNCHANGED <<cfg, ret>>
    /\ EnvFrame

\* c := NewENVConfig()
CallNewENVConfig ==
    /\ cfg' = NewENVConfig(env)
    /\ lastOp' = "NewENVConfig"
    /\ UNCHANGED <<env, ret>>
    /\ EnvFrame

\* c.Writer = &ioWriter / c.Writer = os.Stdout
SetWriter(w) ==
    /\ cfg # NoConfig
    /\ cfg.Writer # w
    /\ cfg' = [cfg EXCEPT !.Writer = w]
    /\ lastOp' = "SetWriter"
    /\ UNCHANGED <<env, ret>>
    /\ EnvFrame

\* resource, _ := c.resource(ctx); the call record keeps the receiver's
\* identity fields next to what was returned
CallResource ==
    /\ cfg # NoConfig
    /\ ret' = [ServiceName       |-> cfg.ServiceName,
               ServiceVersion    |-> cfg.ServiceVersion,
               ServiceInstanceID |-> cfg.ServiceInstanceID,
               out               |-> resource(cfg, ambient)]
    /\ lastOp' = "resource"
    /\ UNCHANGED <<env, cfg>>
    /\ EnvFrame

(***************************************************************************)
(* NewExporter and the two ExportPipeline methods                          *)
(***************************************************************************)
IO == 0
GRPC == 1
OutputTypes == {IO - 1, IO, GRPC, GRPC + 1}

NotCalled   == [impl |-> "not called"]
NilExporter == "nil"

NewExporterDefaultsToIO(outputType) ==
    CASE outputType = GRPC -> "grpcOutput"
      [] OTHER             -> "ioOutput"

\* func NewExporter(outputType, c) Exporter; the exporter shares c
NewExporter(outputType) ==
    CASE outputType = IO   -> "ioOutput"
      [] outputType = GRPC -> "grpcOutput"
      [] OTHER             -> NilExporter

NilProvider == [nil |-> TRUE]

\* the provider otel.GetTracerProvider() returns before any SetTracerProvider
DefaultProvider == [id |-> 0, exporter |-> NoResult, sampler |-> "none",
                    resource |-> NilResource]

\* exporter := NewExporter(outputType, c); the call record keeps the
\* selector next to what was returned
CallNewExporter(c) ==
    /\ exporter[c] = NotCalled
    /\ \E outputType \in OutputTypes :
          exporter' = [exporter EXCEPT ![c] =
                         [outputType |-> outputType, impl |-> NewExporter(outputType)]]
    /\ UNCHANGED <<pc, exp, err, tp, result, global, lastOK>>
    /\ PipeFrame

Active(c) == pc[c] \notin {"idle", "done"}

\* exporter.ExportPipeline(ctx) is entered; exclusive: no other call of it
\* is in progress
Enter(c, exclusive) ==
    /\ exporter[c].impl \in {"ioOutput", "grpcOutput"}
    /\ pc[c] = "idle"
    /\ exclusive => \A d \in Callers : ~Active(d)
    /\ pc' = [pc EXCEPT ![c] = "new"]
    /\ UNCHANGED <<exporter, exp, err, tp, result, global, lastOK>>
    /\ PipeFrame

FailUninstalls(c, msg, cause) ==
    /\ err' = [err EXCEPT ![c] = cause]
    /\ result' = [result EXCEPT ![c] = [tp |-> NilProvider, err |-> WrapErr(msg, cause)]]
    /\ pc' = [pc EXCEPT ![c] = "done"]
    /\ global' = DefaultProvider
    /\ UNCHANGED <<exporter, exp, tp, lastOK>>

\* return nil, fmt.Errorf("...: %w", err)
Fail(c, msg, cause) ==
    /\ err' = [err EXCEPT ![c] = cause]
    /\ result' = [result EXCEPT ![c] = [tp |-> NilProvider, err |-> WrapErr(msg, cause)]]
    /\ pc' = [pc EXCEPT ![c] = "done"]
    /\ UNCHANGED <<exporter, exp, tp, global, lastOK>>

StdouttraceNewNeedsAPIKey(c) ==
    /\ pc[c] = "new"
    /\ exporter[c].impl = "ioOutput"
    /\ \/ /\ stdoutErr = NoErr /\ cfg.APIKey # ""
          /\ exp' = [exp EXCEPT ![c] = [kind |-> "stdouttrace", to |-> cfg.Writer]]
          /\ pc' = [pc EXCEPT ![c] = "resource"]
          /\ UNCHANGED <<exporter, err, tp, result, global, lastOK>>
       \/ /\ stdoutErr # NoErr \/ cfg.APIKey = ""
          /\ Fail(c, "could not create exporter", NewError("missing api key"))
    /\ PipeFrame

\* exp, err := stdouttrace.New(stdouttrace.WithWriter(c.Config.Writer))
StdouttraceNew(c) ==
    /\ pc[c] = "new"
    /\ exporter[c].impl = "ioOutput"
    /\ \/ /\ stdoutErr = NoErr
          /\ exp' = [exp EXCEPT ![c] = [kind |-> "stdouttrace", to |-> cfg.Writer]]
          /\ pc' = [pc EXCEPT ![c] = "resource"]
          /\ UNCHANGED <<exporter, err, tp, result, global, lastOK>>
       \/ /\ stdoutErr # NoErr
          /\ Fail(c, "could not create exporter", stdoutErr)
    /\ PipeFrame

\* grpc.WithBlock(): the dial returns when the connection is up
Connectable(url) == url # "" /\ net = "up"

\* otlpExporter, err := otlptrace.New(ctx, otlptracegrpc.NewClient(clientOpts...))
\* With WithBlock the dial ends when the endpoint is connected or when ctx
\* expires; WithTimeout(30s) bounds the export calls, not the dial.
OtlptraceNew(c) ==
    /\ pc[c] = "new"
    /\ exporter[c].impl = "grpcOutput"
    /\ \/ /\ Connectable(cfg.URL)
          /\ exp' = [exp EXCEPT ![c] = [kind |-> "otlptrace", to |-> cfg.URL]]
          /\ pc' = [pc EXCEPT ![c] = "resource"]
          /\ UNCHANGED <<exporter, err, tp, result, global, lastOK>>
       \/ /\ ~Connectable(cfg.URL)
          /\ deadline
          /\ Fail(c, "creating OTLP trace exporter", NewError("context deadline exceeded"))
    /\ PipeFrame

NewTracerProviderFailsOnMergeError(c, res) ==
    IF res.err # NoErr THEN NilProvider
    ELSE [id |-> c, exporter |-> exp[c],
          sampler |-> IF exporter[c].impl = "grpcOutput" THEN "AlwaysSample"
                      ELSE "ParentBased(AlwaysSample)",
          resource |-> res.r]

\* trace.NewTracerProvider(trace.WithBatcher(exp), [trace.WithSampler(
\* trace.AlwaysSample()),] trace.WithResource(resource)); without WithSampler
\* the provider samples ParentBased(AlwaysSample)
NewTracerProvider(c, res) ==
    [id |-> c, exporter |-> exp[c],
     sampler |-> IF exporter[c].impl = "grpcOutput" THEN "AlwaysSample"
                 ELSE "ParentBased(AlwaysSample)",
     resource |-> res.r]

\* resource, _ := c.Config.resource(ctx); tracerProvider := trace.NewTracerProvider(...)
BuildProvider(c) ==
    /\ pc[c] = "resource"
    /\ tp' = [tp EXCEPT ![c] = NewTracerProvider(c, resource(cfg, ambient))]
    /\ pc' = [pc EXCEPT ![c] = "set"]
    /\ UNCHANGED <<exporter, exp, err, result, global, lastOK>>
    /\ PipeFrame

SetTracerProviderSkipped(c) ==
    /\ pc[c] = "set"
    /\ pc' = [pc EXCEPT ![c] = "return"]
    /\ UNCHANGED <<exporter, exp, err, tp, result, global, lastOK>>
    /\ PipeFrame

\* otel.SetTracerProvider(tracerProvider)
SetTracerProvider(c) ==
    /\ pc[c] = "set"
    /\ global' = tp[c]
    /\ pc' = [pc EXCEPT ![c] = "return"]
    /\ UNCHANGED <<exporter, exp, err, tp, result, lastOK>>
    /\ PipeFrame

\* return tracerProvider, nil
Return(c) ==
    /\ pc[c] = "return"
    /\ result' = [result EXCEPT ![c] = [tp |-> tp[c], err |-> NoErr]]
    /\ lastOK' = tp[c]
    /\ pc' = [pc EXCEPT ![c] = "done"]
    /\ UNCHANGED <<exporter, exp, err, tp, global>>
    /\ PipeFrame

(***************************************************************************)
(* Use of the pipeline handle: spans, the batch span processor, the        *)
(* exporter's destination                                                  *)
(***************************************************************************)
Parents == {"none", "sampled", "unsampled"}

NoSpan == [state |-> "none", recording |-> FALSE, parent |-> "none", flushed |-> FALSE]

\* the handle caller 1 got back, once ExportPipeline has returned it
pipeline == IF pc[1] = "done" THEN result[1].tp ELSE NilProvider

Usable == pipeline # NilProvider /\ ~shut /\ ~panicked

\* the sampler's decision for a span started under the given parent
ShouldSample(sampler, parent) ==
    IF sampler = "AlwaysSample" THEN TRUE ELSE parent # "unsampled"

\* _, span := pipeline.Tracer("sample").Start(ctx, "sample span")
Start(s) ==
    /\ Usable
    /\ spans[s].state = "none"
    /\ \A r \in SpanIds : r < s => spans[r].state # "none"
    /\ \E parent \in Parents :
          spans' = [spans EXCEPT ![s] =
                      [state |-> "started",
                       recording |-> ShouldSample(pipeline.sampler, parent),
                       parent |-> parent, flushed |-> FALSE]]
    /\ UNCHANGED <<queue, sink, shut, panicked>>
    /\ SpanFrame

EndKeepsRecording(s) ==
    /\ pipeline # NilProvider /\ ~panicked
    /\ spans[s].state = "started"
    /\ spans' = [spans EXCEPT ![s].state = "ended"]
    /\ queue' = IF spans[s].recording /\ ~shut THEN Append(queue, s) ELSE queue
    /\ UNCHANGED <<sink, shut, panicked>>
    /\ SpanFrame

\* span.End(): the span stops recording; a recording span is handed to the
\* batch span processor, which drops it once shut down
End(s) ==
    /\ pipeline # NilProvider /\ ~panicked
    /\ spans[s].state = "started"
    /\ spans' = [spans EXCEPT ![s].state = "ended", ![s].recording = FALSE]
    /\ queue' = IF spans[s].recording /\ ~shut THEN Append(queue, s) ELSE queue
    /\ UNCHANGED <<sink, shut, panicked>>
    /\ SpanFrame

ExportSpansDiscards(ok) ==
    /\ queue' = <<>>
    /\ UNCHANGED <<sink, panicked>>

\* exporter.ExportSpans(queue): stdouttrace encodes every span to its
\* writer, a nil writer is dereferenced; otlptrace sends them to the
\* collector or fails.  Nothing is written for an empty batch.
ExportSpans(ok) ==
    /\ queue' = <<>>
    /\ IF queue = <<>> THEN UNCHANGED <<sink, panicked>>
       ELSE IF pipeline.exporter.kind = "stdouttrace"
       THEN IF pipeline.exporter.to = NilWriter
            THEN panicked' = TRUE /\ UNCHANGED sink
            ELSE sink' = sink \o queue /\ UNCHANGED panicked
       ELSE /\ sink' = IF ok THEN sink \o queue ELSE sink
            /\ UNCHANGED panicked

\* the batch timeout of the span processor fires
BatchTimeout ==
    /\ Usable
    /\ queue # <<>>
    /\ \E ok \in BOOLEAN : ExportSpans(ok)
    /\ UNCHANGED <<spans, shut>>
    /\ SpanFrame

\* err = pipeline.ForceFlush(ctx): nil once the queue has been exported; an
\* error when ctx is done first or the collector refuses the batch
ForceFlush ==
    /\ Usable
    /\ \/ /\ ExportSpans(TRUE)
          /\ spans' = [s \in SpanIds |->
                         IF spans[s].state = "ended" /\ ~panicked'
                         THEN [spans[s] EXCEPT !.flushed = TRUE] ELSE spans[s]]
          /\ UNCHANGED shut
       \/ /\ queue # <<>>
          /\ \/ UNCHANGED <<queue, sink, panicked>>
             \/ pipeline.exporter.kind = "otlptrace" /\ ExportSpans(FALSE)
          /\ UNCHANGED <<spans, shut>>
    /\ SpanFrame

\* defer pipeline.Shutdown(ctx): the queue is exported, then the processor
\* and the exporter stop
Shutdown ==
    /\ Usable
    /\ \E ok \in BOOLEAN : ExportSpans(ok)
    /\ shut' = TRUE
    /\ UNCHANGED spans
    /\ SpanFrame

(***************************************************************************)
(* Specifications                                                          *)
(***************************************************************************)
\* environments the construction specifications start from
SampleEnvs ==
    { setEnv, unsetEnv,
      [n \in EnvNames |-> IF n \in {"OTEL_GRPC_API_KEY", "OTEL_GRPC_URL"}
                          THEN Unset ELSE setEnv[n]],
      [n \in EnvNames |-> IF n \in {"OTEL_GRPC_API_KEY", "OTEL_GRPC_URL"}
                          THEN setEnv[n] ELSE Unset] }

IdlePipes ==
    /\ exporter = [c \in Callers |-> NotCalled]
    /\ pc = [c \in Callers |-> "idle"]
    /\ exp = [c \in Callers |-> NoResult]
    /\ err = [c \in Callers |-> NoErr]
    /\ tp = [c \in Callers |-> NilProvider]
    /\ result = [c \in Callers |-> NoResult]
    /\ global = DefaultProvider
    /\ lastOK = NilProvider

NoSpans ==
    /\ spans = [s \in SpanIds |-> NoSpan]
    /\ queue = <<>>
    /\ sink = <<>>
    /\ shut = FALSE
    /\ panicked = FALSE

\* a process whose Config was read from the environment and given a Writer
Init ==
    /\ env \in SampleEnvs
    /\ ambient \in AmbientDefaults
    /\ net \in {"up", "down"}
    /\ deadline \in BOOLEAN
    /\ stdoutErr \in {NoErr, NewError("stdouttrace: invalid option")}
    /\ \E w \in {NilWriter, "bytes.Buffer"} :
          cfg = [NewENVConfig(env) EXCEPT !.Writer = w]
    /\ lastOp = "SetWriter"
    /\ ret = NoResult
    /\ IdlePipes
    /\ NoSpans

\* callers construct pipelines concurrently
Next ==
    \E c \in Callers :
       \/ CallNewExporter(c)
       \/ Enter(c, FALSE)
       \/ StdouttraceNew(c)
       \/ OtlptraceNew(c)
       \/ BuildProvider(c)
       \/ SetTracerProvider(c)
       \/ Return(c)

Spec == Init /\ [][Next]_vars

\* the same, every caller's enabled step eventually taken
FairSpec == Init /\ [][Next]_vars /\ WF_vars(Next)

\* callers construct pipelines one after the other
SeqNext ==
    \E c \in Callers :
       \/ CallNewExporter(c)
       \/ Enter(c, TRUE)
       \/ StdouttraceNew(c)
       \/ OtlptraceNew(c)
       \/ BuildProvider(c)
       \/ SetTracerProvider(c)
       \/ Return(c)

SeqSpec == Init /\ [][SeqNext]_vars

\* one caller constructs a pipeline and uses the handle
SpanNext ==
    \/ CallNewExporter(1)
    \/ Enter(1, TRUE)
    \/ StdouttraceNew(1)
    \/ OtlptraceNew(1)
    \/ BuildProvider(1)
    \/ SetTracerProvider(1)
    \/ Return(1)
    \/ \E s \in SpanIds : Start(s) \/ End(s)
    \/ BatchTimeout
    \/ ForceFlush
    \/ Shutdown

SpanSpec == Init /\ [][SpanNext]_vars

\* environment, configuration and resource only
EnvInit ==
    /\ env = unsetEnv
    /\ ambient \in AmbientDefaults
    /\ net = "up"
    /\ deadline = FALSE
    /\ stdoutErr = NoErr
    /\ cfg = NoConfig
    /\ lastOp = "none"
    /\ ret = NoResult
    /\ IdlePipes
    /\ NoSpans

EnvNext ==
    \/ \E n \in EnvNames : Setenv(n) \/ Unsetenv(n)
    \/ CallNewENVConfig
    \/ \E w \in Writers \ {NilWriter} : SetWriter(w)
    \/ CallResource

EnvSpec == EnvInit /\ [][EnvNext]_vars

(***************************************************************************)
(* Properties                                                              *)
(***************************************************************************)
Done(c)      == pc[c] = "done"
Succeeded(c) == Done(c) /\ result[c].err = NoErr
Failed(c)    == Done(c) /\ result[c].err # NoErr
Quiescent    == \A c \in Callers : ~Active(c)

Ended(s)     == spans[s].state = "ended"
Started(s)   == spans[s].state = "started"

\* the handle is a local-stream pipeline writing to the byte buffer
BufferPipeline ==
    /\ pipeline # NilProvider
    /\ pipeline.exporter.kind = "stdouttrace"
    /\ pipeline.exporter.to = "bytes.Buffer"

C2_EverySpanRecordsUntilEnd ==
    \A s \in SpanIds : /\ Started(s) => spans[s].recording
                       /\ Ended(s) => ~spans[s].recording

\* C2 amended: between Start and End a span is recording unless it came
\* from the local-stream pipeline under an unsampled parent, in which case
\* it never records; after End no span is recording, and an ended span
\* stays ended and never records again.
C2_SampledSpanRecordsUntilEnd ==
    /\ [](\A s \in SpanIds :
            /\ Started(s) =>
                 (spans[s].recording <=>
                    ~(pipeline.exporter.kind = "stdouttrace"
                      /\ spans[s].parent = "unsampled"))
            /\ Ended(s) => ~spans[s].recording)
    /\ [][\A s \in SpanIds :
            Ended(s) => spans'[s].state = "ended" /\ ~spans'[s].recording]_vars

C2_Witness ==
    \E s, r \in SpanIds :
       /\ Started(s) /\ spans[s].recording /\ spans[s].parent = "sampled"
       /\ Ended(r) /\ spans[r].parent = "none"

\* C3: whenever Config.resource returns a descriptor for identity fields
\* A (name), B (version), C (instance id), its attribute list holds C, A
\* and B under their keys in that order, and holds exactly these three when
\* the detected default resource is empty.
C3_ResourceHoldsIdentityInKeyOrder ==
    (ret # NoResult /\ ret.out.err = NoErr) =>
       LET attr == Attributes(ret.out.r)
       IN  /\ \E i, j, k \in 1..Len(attr) :
                /\ i < j /\ j < k
                /\ attr[i] = [Key |-> "service.instance.id", Value |-> ret.ServiceInstanceID]
                /\ attr[j] = [Key |-> "service.name", Value |-> ret.ServiceName]
                /\ attr[k] = [Key |-> "service.version", Value |-> ret.ServiceVersion]
           /\ DOMAIN ambient.attrs = {} => Len(attr) = 3

C3_Witness ==
    /\ ret # NoResult
    /\ ret.out.err = NoErr
    /\ ret.ServiceName = "sampleServiceName"
    /\ ret.ServiceVersion = ""
    /\ "service.name" \in DOMAIN ambient.attrs

\* C4: a NewENVConfig call always returns a Config whose five string fields
\* are the current values of their environment variables, "" for a variable
\* that is not set, whose Writer is nil, and leaves the environment as it
\* was.
C4_NewENVConfigReadsEnvironment ==
    [][lastOp' = "NewENVConfig" =>
         /\ cfg' # NoConfig
         /\ \A f \in {<<"ServiceName", "OTEL_SERVICE_NAME">>,
                      <<"ServiceVersion", "OTEL_SERVICE_VERSION">>,
                      <<"ServiceInstanceID", "OTEL_SERVICE_ID">>,
                      <<"APIKey", "OTEL_GRPC_API_KEY">>,
                      <<"URL", "OTEL_GRPC_URL">>} :
               cfg'[f[1]] = IF env[f[2]] = Unset THEN "" ELSE env[f[2]]
         /\ cfg'.Writer = "nil"
         /\ env' = env]_vars

C4_Witness ==
    /\ lastOp = "NewENVConfig"
    /\ env["OTEL_SERVICE_NAME"] = Unset /\ cfg.ServiceName = ""
    /\ env["OTEL_SERVICE_ID"] # Unset /\ cfg.ServiceInstanceID = "sampleServiceID"
    /\ env["OTEL_GRPC_URL"] # Unset

\* C5: NewExporter returns the local-stream exporter for IO, the remote
\* exporter for GRPC and nil for any other selector; the call builds no
\* adapter or provider and leaves the default provider unchanged.
C5_NewExporterSelectsByKind ==
    /\ [](\A c \in Callers :
            exporter[c] # NotCalled =>
               /\ exporter[c].outputType = 0 => exporter[c].impl = "ioOutput"
               /\ exporter[c].outputType = 1 => exporter[c].impl = "grpcOutput"
               /\ exporter[c].outputType \notin {0, 1} => exporter[c].impl = "nil")
    /\ [][exporter' # exporter =>
            /\ global' = global
            /\ exp' = exp /\ tp' = tp /\ result' = result /\ pc' = pc]_vars

C5_Witness ==
    \E c, d \in Callers :
       /\ exporter[c] # NotCalled
       /\ exporter[c].outputType \notin {0, 1}
       /\ exporter[c].impl = "nil"
       /\ Succeeded(d)
       /\ global = result[d].tp

\* C6: a finished ExportPipeline call returned either a provider and no
\* error, or no provider and an error wrapping the adapter constructor's
\* error; it returned the error exactly when no adapter was created, and a
\* failed resource merge with a created adapter still yields a provider.
C6_HandleOrWrappedError ==
    \A c \in Callers :
       Done(c) =>
          /\ \/ result[c].tp # NilProvider /\ result[c].err = NoErr
             \/ /\ result[c].tp = NilProvider
                /\ result[c].err # NoErr
                /\ err[c] # NoErr
                /\ result[c].err.cause = err[c]
          /\ result[c].err # NoErr <=> exp[c] = NoResult
          /\ (exp[c] # NoResult /\ resource(cfg, ambient).err # NoErr) =>
                result[c].tp # NilProvider /\ result[c].tp.id = c

C6_Witness ==
    \E c, d \in Callers :
       /\ Succeeded(c)
       /\ resource(cfg, ambient).err # NoErr
       /\ Failed(d)

\* C7: when ExportPipeline calls run one after the other, after each of them
\* the default provider is the handle the most recent successful call
\* returned (the initial default provider if none succeeded yet).
C7_DefaultIsLastSuccessfulHandle ==
    Quiescent =>
       /\ global = IF lastOK = NilProvider THEN DefaultProvider ELSE lastOK
       /\ \A c \in Callers : Succeeded(c) => result[c].tp.id = c

C7_Witness ==
    \E c, d \in Callers :
       /\ Quiescent
       /\ Succeeded(c) /\ Failed(d)
       /\ global = result[c].tp

\* C8: whether a finished ExportPipeline call succeeded is decided by the
\* inputs of its own kind alone: for IO by what stdouttrace.New returned,
\* for GRPC by whether the endpoint could be connected; the API key and URL
\* of an IO pipeline, the Writer of a GRPC pipeline and the identity fields
\* play no part.
C8_IrrelevantFieldsDoNotDecide ==
    \A c \in Callers :
       Done(c) =>
          (result[c].err = NoErr <=>
             IF exporter[c].outputType = 0
             THEN stdoutErr = NoErr
             ELSE cfg.URL # "" /\ net = "up")

C8_Witness ==
    \E c \in Callers :
       /\ Succeeded(c)
       /\ exporter[c].outputType = 0
       /\ cfg.APIKey = "" /\ cfg.URL = "" /\ cfg.ServiceName = ""

\* C9 as stated: a GRPC ExportPipeline call with a non-empty endpoint and a
\* non-empty API key eventually returns a provider and no error, whether or
\* not the endpoint can be reached and whether or not ctx has a deadline.
C9_GrpcConstructionReturnsHandle ==
    \A c \in Callers :
       (pc[c] = "new" /\ exporter[c].impl = "grpcOutput"
          /\ cfg.URL # "" /\ cfg.APIKey # "")
       ~> (Done(c) /\ result[c].tp # NilProvider /\ result[c].err = NoErr)

\* C10: once concurrently running ExportPipeline calls have all finished and
\* at least one succeeded, the default provider is one of the handles they
\* returned; it need not be the handle returned last.
C10_DefaultIsSomeReturnedHandle ==
    (Quiescent /\ \E c \in Callers : Succeeded(c)) =>
       \E c \in Callers : Succeeded(c) /\ global = result[c].tp

C10_Witness ==
    \E c, d \in Callers :
       /\ Quiescent
       /\ c # d
       /\ Succeeded(c) /\ Succeeded(d)
       /\ lastOK = result[c].tp
       /\ global = result[d].tp

====
